---- MODULE Spec2Model ----
(***************************************************************************)
(* Node pool of delta-api (src/src/obj_model/node_pool.rs): the registry   *)
(* of nodes, the live sessions (Instances) with their ConnStatus, and the  *)
(* connect / deploy / run protocols built on remote command execution.     *)
(*                                                                         *)
(* Strings whose content the code inspects (command outputs, parameter     *)
(* values, platform) are sequences of one-character strings; names,        *)
(* addresses, parameter keys and enum variants are atomic.                 *)
(*                                                                         *)
(* The pool's methods take &mut self, so one call runs at a time: add,     *)
(* remove, disconnect, is_connected and is_alive are one step each, and    *)
(* connect, deploy and run are split at their remote calls (pc) so that    *)
(* the states between two remote calls can be inspected.  A panic (a       *)
(* failed unwrap) ends the call with result "Panic" and leaves the pool    *)
(* as the unwinding leaves it.                                             *)
(*                                                                         *)
(* Spec is the pool from its construction on.  SpecParams starts from a    *)
(* pool with one connected node and ranges over its bind parameters, for   *)
(* get_node_param, infer_conn_params and the command lines of run.         *)
(***************************************************************************)
EXTENDS Integers, Sequences, FiniteSets, TLC

\* ---------------------------------------------------------------- domains
\* n1 is explored with every input below; n2 is the other node of the pool
\* and gets one configuration, one platform and the deployable subject
Names == {"n1", "n2"}

\* DeploySubject: the reserved variant Delta and a deployable one
DeploySubject == {"Delta", "Sa"}

EmptyStr == <<>>

EmptyMap == [k \in {} |-> EmptyStr]

\* addresses and parameter maps a caller may pass to add
NodeChoices(name) ==
    IF name = "n1"
    THEN {[fqdn |-> "h1:22", str_params |-> EmptyMap],
          [fqdn |-> "h2:22",
           str_params |-> [k \in {"Distr", "BindAddr", "BindPort"} |->
                             CASE k = "Distr" -> <<"a">>
                               [] k = "BindAddr" -> <<"h">>
                               [] OTHER -> <<"8", "0">>]]}
    ELSE {[fqdn |-> "h3:22", str_params |-> EmptyMap]}

\* subjects a caller may pass to run
RunSubjects(name) == IF name = "n1" THEN DeploySubject ELSE {"Sa"}

\* outputs of "uname -a"
Platforms(name) == IF name = "n1" THEN {<<"L">>, <<"D">>} ELSE {<<"L">>}

\* outputs of the extraction command ("... && echo ok")
ExtractOutputs == {EmptyStr, <<"o", "k", "\n">>}

\* outputs of the smoke test ("visao --version")
TestOutputs == {EmptyStr, <<"1", "\n">>}

\* outputs of the launch command sequence of run; the marker is "pid"
LaunchOutputs == {EmptyStr, <<"p", "i", "d", " ", "7", "\n">>}

\* outputs of "cat /tmp/visao/pid", "kill -0 .. && echo runs",
\* "cat /tmp/visao/bind_addr" and "cat /tmp/visao/bind_port"
PidOutputs == {EmptyStr, <<"7", "\n">>, <<"7", "\f">>, <<"x">>}

RunsOutputs == {EmptyStr, <<"r", "u", "n", "s", "\n">>}

\* the bind files hold a configured endpoint, the default one, or no port
AddrOutputs == {<<"h", "\n">>, <<"1", "2", "7", ".", "0", ".", "0", ".", "1", "\n">>}

PortOutputs == {<<"8", "0", "\n">>, <<"5", "7", "0", "0", "\n">>, <<"x">>}

\* the keys of NodeParameters that the pool resolves
ParamKeys == {"BindAddr", "BindPort", "Distr"}

\* the backquote character, which a string of this notation cannot hold
BackQuote == "bq"

\* characters of a configured bind address: a letter, the two quotes and
\* the characters that end or extend a shell command
ShellAlphabet == {"a", "'", "\"", ";", "&", "|", "$", BackQuote, " ", "\n"}

MaxAddrLen == 2

\* a key that a parameter map does not have
Unset == <<"unset">>

AddrValues == UNION {[1..n -> ShellAlphabet] : n \in 0..MaxAddrLen}

PortValues ==
    {EmptyStr, <<"8", "0">>, <<"+", "8", "0">>, <<"6", "5", "5", "3", "5">>,
     <<"6", "5", "5", "3", "6">>, <<"n", "o", "t", "a", "p", "o", "r", "t">>}

\* the parameter map with the bind keys that are set
ParamMap(addr, port) ==
    [k \in (IF addr = Unset THEN {} ELSE {"BindAddr"})
             \cup (IF port = Unset THEN {} ELSE {"BindPort"}) |->
        IF k = "BindAddr" THEN addr ELSE port]

\* pool-wide defaults a caller may set
PoolChoices == {EmptyMap, ParamMap(<<"p">>, <<"8", "1">>)}

\* ---------------------------------------------------------------- strings
\* the characters with the Unicode property White_Space, which str::trim
\* removes; those that a string here cannot hold are named by code point
UnicodeSpaces ==
    {"U+000B", "U+0085", "U+00A0", "U+1680", "U+2000", "U+2001", "U+2002", "U+2003",
     "U+2004", "U+2005", "U+2006", "U+2007", "U+2008", "U+2009", "U+200A", "U+2028",
     "U+2029", "U+202F", "U+205F", "U+3000"}

Whitespace == {" ", "\n", "\t", "\r", "\f"} \cup UnicodeSpaces

Digits == {"0", "1", "2", "3", "4", "5", "6", "7", "8", "9"}

DigitVal(c) ==
    CASE c = "0" -> 0 [] c = "1" -> 1 [] c = "2" -> 2 [] c = "3" -> 3 [] c = "4" -> 4
      [] c = "5" -> 5 [] c = "6" -> 6 [] c = "7" -> 7 [] c = "8" -> 8 [] OTHER -> 9

RECURSIVE TrimStart(_)
TrimStart(s) ==
    IF s # <<>> /\ Head(s) \in Whitespace THEN TrimStart(Tail(s)) ELSE s

RECURSIVE TrimEnd(_)
TrimEnd(s) ==
    IF s # <<>> /\ s[Len(s)] \in Whitespace THEN TrimEnd(SubSeq(s, 1, Len(s) - 1)) ELSE s

\* str::trim
Trim(s) == TrimEnd(TrimStart(s))

\* str::contains
Contains(s, sub) ==
    \E i \in 1..(Len(s) - Len(sub) + 1) : SubSeq(s, i, i + Len(sub) - 1) = sub

RECURSIVE DecVal(_)
DecVal(s) ==
    IF s = <<>> THEN 0 ELSE 10 * DecVal(SubSeq(s, 1, Len(s) - 1)) + DigitVal(s[Len(s)])

\* the digits that str::parse reads for an unsigned type: an optional "+" first
ParseBody(s) == IF s # <<>> /\ Head(s) = "+" THEN Tail(s) ELSE s

RECURSIVE StripZeros(_)
StripZeros(s) ==
    IF s # <<>> /\ Head(s) = "0" THEN StripZeros(Tail(s)) ELSE s

\* a <= b for digit strings of the same length
RECURSIVE DigitsLeq(_, _)
DigitsLeq(a, b) ==
    IF a = <<>> THEN TRUE
    ELSE IF DigitVal(Head(a)) # DigitVal(Head(b))
         THEN DigitVal(Head(a)) < DigitVal(Head(b))
         ELSE DigitsLeq(Tail(a), Tail(b))

\* str::parse::<uN>().is_ok(); max is 2^N - 1 written in decimal digits
ParseOk(s, max) ==
    /\ ParseBody(s) # <<>>
    /\ \A i \in 1..Len(ParseBody(s)) : ParseBody(s)[i] \in Digits
    /\ \/ Len(StripZeros(ParseBody(s))) < Len(max)
       \/ /\ Len(StripZeros(ParseBody(s))) = Len(max)
          /\ DigitsLeq(StripZeros(ParseBody(s)), max)

ParseVal(s) == DecVal(StripZeros(ParseBody(s)))

U16Max == <<"6", "5", "5", "3", "5">>

U64Max == <<"1", "8", "4", "4", "6", "7", "4", "4", "0", "7",
            "3", "7", "0", "9", "5", "5", "1", "6", "1", "5">>

\* ---------------------------------------------------------------- HashMap
MapPut(m, k, v) == [x \in (DOMAIN m) \cup {k} |-> IF x = k THEN v ELSE m[x]]

MapRem(m, k) == [x \in (DOMAIN m) \ {k} |-> m[x]]

\* ---------------------------------------------------------------- ConnStatus
SubjectStatusNew ==
    [deploy_archive_copied |-> FALSE, deploy_archive_extracted |-> FALSE,
     deploy_archive_tested |-> FALSE, deployed |-> FALSE, running |-> FALSE]

NoSubjects == [s \in {} |-> SubjectStatusNew]

ConnStatusNew(connected) ==
    [connected |-> connected, subjects |-> NoSubjects, platform |-> EmptyStr]

get_subject(cs, subject) ==
    IF subject \notin DOMAIN cs.subjects
    THEN SubjectStatusNew
    ELSE cs.subjects[subject]

set_subject_alone(cs, subject, status) ==
    [cs EXCEPT !.subjects = MapPut(NoSubjects, subject, status)]

set_subject(cs, subject, status) ==
    [cs EXCEPT !.subjects = MapPut(cs.subjects, subject, status)]

\* Instance::new_ssh(sess, connected): the session handle and a fresh status
InstanceNewSsh(connected) ==
    [ssh_session |-> "Some", conn_status |-> ConnStatusNew(connected)]

\* ---------------------------------------------------------------- state
VARIABLES
    nodes,       \* NodePool.nodes: name -> [fqdn, str_params]
    instances,   \* NodePool.instances: name -> [ssh_session, conn_status]
    str_params,  \* NodePool.str_params: pool-wide defaults
    added,       \* names ever passed to add (history)
    sessions,    \* name -> number of open transport sessions to that node
    pc,          \* position of the call in flight, "idle" when none
    local,       \* its local variables
    last,        \* the most recent call: arguments, result, returned value,
                 \* and the status of the Instance it dropped (history)
    remote,      \* remote actions issued by the most recent call, in order
    e2e          \* how far the calls so far follow the end-to-end scenario

vars == <<nodes, instances, str_params, added, sessions, pc, local, last, remote, e2e>>

pool == <<nodes, instances, str_params>>

NoAlive == [alive |-> FALSE, bind_addr |-> EmptyStr, bind_port |-> 0]

NoLocal == [sess |-> "None", conn_status |-> ConnStatusNew(FALSE),
            subject_st |-> SubjectStatusNew]

Call(op, name, subject, result) ==
    [op |-> op, name |-> name, subject |-> subject, result |-> result,
     conn_status |-> ConnStatusNew(FALSE), alive |-> NoAlive,
     param |-> "", value |-> EmptyStr, dropped |-> <<>>]

Init ==
    /\ nodes = [n \in {} |-> [fqdn |-> "h1:22", str_params |-> EmptyMap]]
    /\ instances = [n \in {} |-> InstanceNewSsh(FALSE)]
    /\ str_params = EmptyMap
    /\ added = {}
    /\ sessions = [n \in Names |-> 0]
    /\ pc = "idle"
    /\ local = NoLocal
    /\ last = Call("new", "n1", "Delta", "Ok")
    /\ remote = <<>>
    /\ e2e = "start"

\* ---------------------------------------------------------------- remote calls
\* what a remote command can do: the channel fails (execute panics on its
\* unwraps) or the command's output comes back
ExecResults(outs) ==
    {[panic |-> TRUE, out |-> EmptyStr]} \cup {[panic |-> FALSE, out |-> o] : o \in outs}

ExecClass(r) == IF r.panic THEN "panic" ELSE IF r.out = EmptyStr THEN "empty" ELSE "output"

\* a remote command that a call does not reach has no answer, written as
\* the empty output
NoAnswer == [panic |-> FALSE, out |-> EmptyStr]

\* entries of the log of remote actions: the action, how it went, its output
Did(act, outcome) == <<act, outcome, EmptyStr>>

Ran(act, r) == <<act, ExecClass(r), r.out>>

\* closing the sessions that a call dropped is its first remote action
Closed(insts_old, insts_new) ==
    IF DOMAIN insts_old \subseteq DOMAIN insts_new THEN <<>> ELSE <<Did("close", "ok")>>

\* the status that went with the Instance that a call dropped, if it dropped one
Dropped(insts_old, insts_new) ==
    IF DOMAIN insts_old \subseteq DOMAIN insts_new
    THEN <<>>
    ELSE <<insts_old[CHOOSE n \in DOMAIN insts_old : n \notin DOMAIN insts_new].conn_status>>

\* An Instance owns its session: when the entry leaves the map the session
\* is dropped, which closes it.
CloseDropped(sess, insts_old, insts_new) ==
    [n \in Names |->
        IF n \in DOMAIN insts_old /\ n \notin DOMAIN insts_new THEN sess[n] - 1 ELSE sess[n]]

\* ---------------------------------------------------------------- parameters
get_node_param_pool_first(node, pool_params, sparam) ==
    IF sparam \in DOMAIN pool_params
    THEN pool_params[sparam]
    ELSE IF sparam \in DOMAIN node.str_params
         THEN node.str_params[sparam]
         ELSE EmptyStr

get_node_param(node, pool_params, sparam) ==
    IF sparam \in DOMAIN node.str_params
    THEN node.str_params[sparam]
    ELSE IF sparam \in DOMAIN pool_params
         THEN pool_params[sparam]
         ELSE EmptyStr

\* the defaults that infer_conn_params falls back to
DefaultBindAddr ==
    <<"1", "2", "7", ".", "0", ".", "0", ".", "1">>

DefaultBindPort ==
    <<"5", "7", "0", "0">>

infer_conn_params_keeps_port(node, pool_params) ==
    LET bind_addr == get_node_param(node, pool_params, "BindAddr")
        bind_port == get_node_param(node, pool_params, "BindPort")
        addr == IF Contains(bind_addr, <<"'">>) \/ Contains(bind_addr, <<"\"">>)
                THEN EmptyStr ELSE bind_addr
    IN  <<IF addr = EmptyStr THEN DefaultBindAddr ELSE addr,
          IF bind_port = EmptyStr THEN DefaultBindPort ELSE bind_port>>

\* the bind address and port of a node, each replaced by its default when
\* it is unset or rejected
infer_conn_params(node, pool_params) ==
    LET bind_addr == get_node_param(node, pool_params, "BindAddr")
        bind_port == get_node_param(node, pool_params, "BindPort")
        addr == IF Contains(bind_addr, <<"'">>) \/ Contains(bind_addr, <<"\"">>)
                THEN EmptyStr ELSE bind_addr
        port == IF ~ParseOk(bind_port, U16Max) THEN EmptyStr ELSE bind_port
    IN  <<IF addr = EmptyStr THEN DefaultBindAddr ELSE addr,
          IF port = EmptyStr THEN DefaultBindPort ELSE port>>

\* the pieces of the command lines that run builds around the endpoint
LaunchPrefix ==
    <<"/", "t", "m", "p", "/", "v", "i", "s", "a", "o", "/", "b", "i", "n", "/", "v",
      "i", "s", "a", "o", " ", "-", "-", "s", "e", "r", "v", "e", "r", " ", "'", "t",
      "c", "p", ":", "/", "/">>

LaunchSuffix ==
    <<"'", " ", "<", " ", "/", "d", "e", "v", "/", "n", "u", "l", "l", " ", ">", " ",
      "/", "d", "e", "v", "/", "n", "u", "l", "l", " ", "2", ">", " ", "/", "d", "e",
      "v", "/", "n", "u", "l", "l", " ", "&">>

PidCommand ==
    <<"e", "c", "h", "o", " ", "$", "!", " ", ">", " ", "/", "t", "m", "p", "/", "v",
      "i", "s", "a", "o", "/", "p", "i", "d">>

EchoPrefix ==
    <<"e", "c", "h", "o", " ">>

BindAddrSuffix ==
    <<" ", ">", " ", "/", "t", "m", "p", "/", "v", "i", "s", "a", "o", "/", "b", "i",
      "n", "d", "_", "a", "d", "d", "r">>

BindPortSuffix ==
    <<" ", ">", " ", "/", "t", "m", "p", "/", "v", "i", "s", "a", "o", "/", "b", "i",
      "n", "d", "_", "p", "o", "r", "t">>

SleepCommand ==
    <<"s", "l", "e", "e", "p", " ", "4">>

ProbeCommand ==
    <<"k", "i", "l", "l", " ", "-", "0", " ", "\"", "$", "(", "c", "a", "t", " ", "/",
      "t", "m", "p", "/", "v", "i", "s", "a", "o", "/", "p", "i", "d", ")", "\"", " ",
      "&", "&", " ", "e", "c", "h", "o", " ", "p", "i", "d", " ", "\"", "$", "(", "c",
      "a", "t", " ", "/", "t", "m", "p", "/", "v", "i", "s", "a", "o", "/", "p", "i",
      "d", ")", "\"">>

\* the command lines that run writes to the remote shell, in order
run_commands(conn_params) ==
    <<LaunchPrefix \o conn_params[1] \o <<":">> \o conn_params[2] \o LaunchSuffix,
      PidCommand,
      EchoPrefix \o conn_params[1] \o BindAddrSuffix,
      EchoPrefix \o conn_params[2] \o BindPortSuffix,
      SleepCommand,
      ProbeCommand>>

\* log entries of the command lines written to the shell channel
Sent(commands) == [i \in 1..Len(commands) |-> <<"sh", "sent", commands[i]>>]

\* ---------------------------------------------------------------- scenario
\* e2e records whether the calls made so far are the end-to-end scenario on
\* one node, each call following the one before it with the remote side
\* doing its part: "start" (new pool), "added", "connected", "deployed",
\* "running", "probed"; "off" once anything else has happened.
ScenarioOp(stage) ==
    CASE stage = "start" -> "add"
      [] stage = "added" -> "connect"
      [] stage = "connected" -> "deploy"
      [] stage = "deployed" -> "run"
      [] OTHER -> "is_alive"

ScenarioNext(stage) ==
    CASE stage = "start" -> "added"
      [] stage = "added" -> "connected"
      [] stage = "connected" -> "deployed"
      [] stage = "deployed" -> "running"
      [] OTHER -> "probed"

\* the value in the command line "echo VALUE > FILE"
EchoWord(line, suffix) ==
    SubSeq(line, Len(EchoPrefix) + 1, Len(line) - Len(suffix))

\* a word of letters, digits, dots and plus signs: the shell takes it as it
\* stands, and "echo WORD > FILE" leaves WORD and a newline in FILE
PlainWord(word) ==
    \A i \in 1..Len(word) :
        word[i] \in Digits \cup {".", "+"}
                   \cup {"a", "b", "c", "d", "e", "f", "g", "h", "i", "j", "k", "l", "m",
                         "n", "o", "p", "q", "r", "s", "t", "u", "v", "w", "x", "y", "z"}

\* The remote side did its part in the call whose remote actions are log:
\* connect was let in, every stage of deploy succeeded, the launch sequence
\* of run printed the marker; for is_alive, with before the log of the run
\* just made: the pid file holds the pid that the launch sequence printed,
\* that process is alive, and the two bind files hold the plain words that
\* the echo lines of that run wrote.
RemoteCooperated(op, before, log) ==
    CASE op = "add" -> TRUE
      [] op = "connect" ->
            Len(log) = 4 /\ \A i \in 1..4 : log[i][2] \in {"ok", "output"}
      [] op = "deploy" ->
            Len(log) = 3 /\ \A i \in 1..3 : log[i][2] \in {"ok", "output"}
      [] op = "run" ->
            Len(log) = 8 /\ Contains(log[8][3], <<"p", "i", "d">>)
      [] OTHER ->
            /\ Len(before) = 8 /\ Len(log) = 4
            /\ before[8][3] = <<"p", "i", "d", " ">> \o log[1][3]
            /\ Contains(log[2][3], <<"r", "u", "n", "s">>)
            /\ PlainWord(EchoWord(before[4][3], BindAddrSuffix))
            /\ PlainWord(EchoWord(before[5][3], BindPortSuffix))
            /\ log[3][3] = EchoWord(before[4][3], BindAddrSuffix) \o <<"\n">>
            /\ log[4][3] = EchoWord(before[5][3], BindPortSuffix) \o <<"\n">>

\* call is the call that the scenario has at this stage, after the call prev
ScenarioCall(stage, prev, call) ==
    /\ call.op = ScenarioOp(stage)
    /\ (stage = "start" \/ call.name = prev.name)
    /\ (call.op = "deploy") => (call.subject # "Delta")
    /\ (call.op = "run") => (call.subject = prev.subject)

\* the step of e2e that goes with every step of the pool
Track ==
    e2e' =
        IF e2e \in {"off", "probed"} THEN "off"
        ELSE IF pc = "idle" /\ ~ScenarioCall(e2e, last, last') THEN "off"
        ELSE IF pc' # "idle" THEN e2e
        ELSE IF RemoteCooperated(last'.op, remote, remote') THEN ScenarioNext(e2e)
        ELSE "off"

\* ---------------------------------------------------------------- get_node_param
\* get_node_param called with a node of the pool
GetNodeParam(name, sparam) ==
    /\ pc = "idle"
    /\ name \in DOMAIN nodes
    /\ last' = [Call("get_node_param", name, "Delta", "Ok")
                  EXCEPT !.param = sparam,
                         !.value = get_node_param(nodes[name], str_params, sparam)]
    /\ remote' = <<>>
    /\ UNCHANGED <<nodes, instances, str_params, added, sessions, pc, local>>
    /\ Track

\* ---------------------------------------------------------------- add
add_result(ns, name) ==
    IF name \in DOMAIN ns THEN "NodeAlreadyExists" ELSE "Ok"

add_nodes_overwrite(ns, name, fqdn, node_params) ==
    MapPut(ns, name, [fqdn |-> fqdn, str_params |-> node_params])

add_nodes(ns, name, fqdn, node_params) ==
    IF name \in DOMAIN ns
    THEN ns
    ELSE MapPut(ns, name, [fqdn |-> fqdn, str_params |-> node_params])

Add(name, fqdn, node_params) ==
    /\ pc = "idle"
    /\ nodes' = add_nodes(nodes, name, fqdn, node_params)
    /\ added' = added \cup {name}
    /\ last' = Call("add", name, "Delta", add_result(nodes, name))
    /\ remote' = <<>>
    /\ UNCHANGED <<instances, str_params, sessions, pc, local>>
    /\ Track

\* ---------------------------------------------------------------- is_connected
is_connected(insts, name) ==
    IF name \in DOMAIN insts
    THEN insts[name].conn_status
    ELSE ConnStatusNew(FALSE)

IsConnected(name) ==
    /\ pc = "idle"
    /\ last' = [Call("is_connected", name, "Delta", "Ok")
                  EXCEPT !.conn_status = is_connected(instances, name)]
    /\ remote' = <<>>
    /\ UNCHANGED <<nodes, instances, str_params, added, sessions, pc, local>>
    /\ Track

\* ---------------------------------------------------------------- disconnect
disconnect_result(ns, name) ==
    IF name \notin DOMAIN ns THEN "NodeNotFound" ELSE "Ok"

disconnect_instances_keep(ns, insts, name) == insts

disconnect_instances(ns, insts, name) ==
    IF name \notin DOMAIN ns THEN insts ELSE MapRem(insts, name)

Disconnect(name) ==
    /\ pc = "idle"
    /\ instances' = disconnect_instances(nodes, instances, name)
    /\ sessions' = CloseDropped(sessions, instances, instances')
    /\ last' = [Call("disconnect", name, "Delta", disconnect_result(nodes, name))
                  EXCEPT !.dropped = Dropped(instances, instances')]
    /\ remote' = Closed(instances, instances')
    /\ UNCHANGED <<nodes, str_params, added, pc, local>>
    /\ Track

\* ---------------------------------------------------------------- remove
remove_result(ns, name) ==
    IF name \notin DOMAIN ns THEN "NodeNotFound" ELSE "Ok"

remove_nodes_keep(ns, name) == ns

remove_nodes(ns, name) == MapRem(ns, name)

remove_instances_keep(ns, insts, name) == insts

remove_instances(ns, insts, name) ==
    IF name \notin DOMAIN ns THEN insts ELSE MapRem(insts, name)

Remove(name) ==
    /\ pc = "idle"
    /\ nodes' = remove_nodes(nodes, name)
    /\ instances' = remove_instances(nodes, instances, name)
    /\ sessions' = CloseDropped(sessions, instances, instances')
    /\ last' = [Call("remove", name, "Delta", remove_result(nodes, name))
                  EXCEPT !.dropped = Dropped(instances, instances')]
    /\ remote' = Closed(instances, instances')
    /\ UNCHANGED <<str_params, added, pc, local>>
    /\ Track

\* ---------------------------------------------------------------- calls in flight
\* the call in flight ends with this result
Finish(result) ==
    /\ pc' = "idle"
    /\ local' = NoLocal
    /\ last' = [last EXCEPT !.result = result]

set_state(insts, name, conn_status) ==
    IF name \in DOMAIN insts
    THEN [insts EXCEPT ![name].conn_status = conn_status]
    ELSE insts

\* set_subject followed by set_state, as every exit of deploy and run does;
\* set_state unwraps the Instance and panics when it is gone
Persist(subject_st, result) ==
    /\ instances' = set_state(instances, last.name,
                              set_subject(local.conn_status, last.subject, subject_st))
    /\ pc' = "idle"
    /\ local' = NoLocal
    /\ last' = [last EXCEPT !.result =
                   IF last.name \in DOMAIN instances THEN result ELSE "Panic"]

\* ---------------------------------------------------------------- connect
connect_keep_prior(insts, name) == insts

connect_discard_prior(insts, name) == MapRem(insts, name)

Connect(name) ==
    /\ pc = "idle"
    /\ IF name \notin DOMAIN nodes
       THEN /\ last' = Call("connect", name, "Delta", "NodeNotFound")
            /\ UNCHANGED <<nodes, instances, str_params, added, sessions, pc, local>>
       ELSE /\ instances' = connect_discard_prior(instances, name)
            /\ sessions' = CloseDropped(sessions, instances, instances')
            /\ pc' = "tcp"
            /\ local' = NoLocal
            /\ last' = [Call("connect", name, "Delta", "Pending")
                          EXCEPT !.dropped = Dropped(instances, instances')]
            /\ UNCHANGED <<nodes, str_params, added>>
    /\ remote' = Closed(instances, instances')
    /\ Track

\* the local sess goes out of scope (early return or unwinding)
DropLocal ==
    sessions' = [sessions EXCEPT ![last.name] = @ - 1]

\* TcpStream::connect(fqdn).unwrap(); Session::new().unwrap(); set_tcp_stream
ConnectTcp(outcome) ==
    /\ pc = "tcp"
    /\ remote' = Append(remote, Did("tcp", outcome))
    /\ IF outcome = "ok"
       THEN /\ sessions' = [sessions EXCEPT ![last.name] = @ + 1]
            /\ local' = [local EXCEPT !.sess = "Some"]
            /\ pc' = "handshake"
            /\ UNCHANGED last
       ELSE /\ Finish("Panic")
            /\ UNCHANGED sessions
    /\ UNCHANGED <<nodes, instances, str_params, added>>
    /\ Track

\* sess.handshake().unwrap()
ConnectHandshake(outcome) ==
    /\ pc = "handshake"
    /\ remote' = Append(remote, Did("handshake", outcome))
    /\ IF outcome = "ok"
       THEN /\ pc' = "auth"
            /\ UNCHANGED <<local, last, sessions>>
       ELSE /\ Finish("Panic")
            /\ DropLocal
    /\ UNCHANGED <<nodes, instances, str_params, added>>
    /\ Track

ConnectAuth_unchecked(outcome) ==
    /\ pc = "auth"
    /\ remote' = Append(remote, Did("auth", outcome))
    /\ IF outcome \in {"ok", "unauthenticated"}
       THEN /\ pc' = "uname"
            /\ UNCHANGED <<local, last, sessions>>
       ELSE /\ Finish("NotAuthenticated")
            /\ DropLocal
    /\ UNCHANGED <<nodes, instances, str_params, added>>
    /\ Track

\* userauth_password with the resolved credentials, then sess.authenticated()
ConnectAuth(outcome) ==
    /\ pc = "auth"
    /\ remote' = Append(remote, Did("auth", outcome))
    /\ IF outcome = "ok"
       THEN /\ pc' = "uname"
            /\ UNCHANGED <<local, last, sessions>>
       ELSE /\ Finish("NotAuthenticated")
            /\ DropLocal
    /\ UNCHANGED <<nodes, instances, str_params, added>>
    /\ Track

connect_instance_not_connected(plat) ==
    [InstanceNewSsh(FALSE) EXCEPT !.conn_status.platform = plat]

connect_instance(plat) ==
    [InstanceNewSsh(TRUE) EXCEPT !.conn_status.platform = plat]

\* execute(&sess, "uname -a"), then the Instance is stored; an entry that
\* insert replaces is dropped
ConnectUname(r) ==
    /\ pc = "uname"
    /\ r \in ExecResults(Platforms(last.name))
    /\ remote' = Append(remote, Ran("uname", r))
    /\ IF r.panic
       THEN /\ Finish("Panic")
            /\ DropLocal
            /\ UNCHANGED instances
       ELSE /\ instances' = MapPut(instances, last.name, connect_instance(r.out))
            /\ sessions' = CloseDropped(sessions, instances, MapRem(instances, last.name))
            /\ Finish("Ok")
    /\ UNCHANGED <<nodes, str_params, added>>
    /\ Track

\* ---------------------------------------------------------------- deploy
deploy_precheck_node_first(ns, insts, name, subject) ==
    IF name \notin DOMAIN ns THEN "NodeNotFound"
    ELSE IF subject = "Delta" THEN "InvalidArgument"
    ELSE IF name \notin DOMAIN insts THEN "NodeNotConnected"
    ELSE "Pass"

deploy_precheck(ns, insts, name, subject) ==
    IF subject = "Delta" THEN "InvalidArgument"
    ELSE IF name \notin DOMAIN ns THEN "NodeNotFound"
    ELSE IF name \notin DOMAIN insts THEN "NodeNotConnected"
    ELSE "Pass"

deploy_reset_keeps_deployed(st) ==
    [st EXCEPT !.deploy_archive_copied = FALSE,
               !.deploy_archive_extracted = FALSE, !.deploy_archive_tested = FALSE]

deploy_reset(st) ==
    [st EXCEPT !.deployed = FALSE, !.deploy_archive_copied = FALSE,
               !.deploy_archive_extracted = FALSE, !.deploy_archive_tested = FALSE]

Deploy(name, subject) ==
    /\ pc = "idle"
    /\ remote' = <<>>
    /\ IF deploy_precheck(nodes, instances, name, subject) # "Pass"
       THEN /\ last' = Call("deploy", name, subject,
                            deploy_precheck(nodes, instances, name, subject))
            /\ UNCHANGED <<pc, local>>
       ELSE /\ pc' = "upload"
            /\ local' = [sess |-> "None",
                         conn_status |-> instances[name].conn_status,
                         subject_st |-> deploy_reset(
                              get_subject(instances[name].conn_status, subject))]
            /\ last' = Call("deploy", name, subject, "Pending")
    /\ UNCHANGED <<nodes, instances, str_params, added, sessions>>
    /\ Track

\* what can happen to the transfer, by the place in upload_file it happens
UploadOutcomes ==
    {"open_err", "metadata_err", "scp_send_err", "read_err", "write_err", "eof_err", "ok"}

\* "false": DeployCopyFailed; "true": the pipeline goes on; "panic": an unwrap
\* of send_eof / wait_eof / close / wait_close failed.  A read error leaves
\* the loop and a write error is ignored, and both end in "true".
upload_file(outcome) ==
    CASE outcome \in {"open_err", "metadata_err", "scp_send_err"} -> "false"
      [] outcome \in {"read_err", "write_err"} -> "true"
      [] outcome = "eof_err" -> "panic"
      [] OTHER -> "true"

DeployUpload(outcome) ==
    /\ pc = "upload"
    /\ remote' = Append(remote, Did("upload", outcome))
    /\ CASE upload_file(outcome) = "false" ->
              Persist(local.subject_st, "DeployCopyFailed")
         [] upload_file(outcome) = "panic" ->
              /\ Finish("Panic")
              /\ UNCHANGED instances
         [] OTHER ->
              /\ local' = [local EXCEPT !.subject_st.deploy_archive_copied = TRUE]
              /\ pc' = "extract"
              /\ UNCHANGED <<instances, last>>
    /\ UNCHANGED <<nodes, str_params, added, sessions>>
    /\ Track

DeployExtract(r) ==
    /\ pc = "extract"
    /\ remote' = Append(remote, Ran("extract", r))
    /\ CASE r.panic ->
              /\ Finish("Panic")
              /\ UNCHANGED instances
         [] ~r.panic /\ r.out = EmptyStr ->
              Persist(local.subject_st, "DeployExtractionFailed")
         [] OTHER ->
              /\ local' = [local EXCEPT !.subject_st.deploy_archive_extracted = TRUE]
              /\ pc' = "test"
              /\ UNCHANGED <<instances, last>>
    /\ UNCHANGED <<nodes, str_params, added, sessions>>
    /\ Track

DeployTest(r) ==
    /\ pc = "test"
    /\ remote' = Append(remote, Ran("test", r))
    /\ CASE r.panic ->
              /\ Finish("Panic")
              /\ UNCHANGED instances
         [] ~r.panic /\ r.out = EmptyStr ->
              Persist(local.subject_st, "DeployTestFailed")
         [] OTHER ->
              Persist([local.subject_st EXCEPT !.deploy_archive_tested = TRUE,
                                               !.deployed = TRUE], "Ok")
    /\ UNCHANGED <<nodes, str_params, added, sessions>>
    /\ Track

\* ---------------------------------------------------------------- run
run_precheck_session_first(ns, insts, name) ==
    IF name \notin DOMAIN insts THEN "NodeNotConnected"
    ELSE IF name \notin DOMAIN ns THEN "NodeNotFound"
    ELSE "Pass"

run_precheck(ns, insts, name) ==
    IF name \notin DOMAIN ns THEN "NodeNotFound"
    ELSE IF name \notin DOMAIN insts THEN "NodeNotConnected"
    ELSE "Pass"

Run(name, subject) ==
    /\ pc = "idle"
    /\ remote' = <<>>
    /\ IF run_precheck(nodes, instances, name) # "Pass"
       THEN /\ last' = Call("run", name, subject, run_precheck(nodes, instances, name))
            /\ UNCHANGED <<pc, local>>
       ELSE /\ pc' = "kill"
            /\ local' = [sess |-> "None",
                         conn_status |-> instances[name].conn_status,
                         subject_st |-> [get_subject(instances[name].conn_status, subject)
                                            EXCEPT !.running = FALSE]]
            /\ last' = Call("run", name, subject, "Pending")
    /\ UNCHANGED <<nodes, instances, str_params, added, sessions>>
    /\ Track

\* the best-effort kill of the previous process; its output is dropped
RunKill(r) ==
    /\ pc = "kill"
    /\ remote' = Append(remote, Ran("kill", r))
    /\ IF r.panic
       THEN Finish("Panic")
       ELSE /\ pc' = "launch"
            /\ UNCHANGED <<local, last>>
    /\ UNCHANGED <<nodes, instances, str_params, added, sessions>>
    /\ Track

\* execute_vec of the launch commands, then the check for the marker.  The
\* command lines are written one by one: when execute_vec panics, the
\* first sent of them were written (none when the channel or the shell
\* could not be opened, all when send_eof or the read failed), and when it
\* returned, all were.
RunLaunch(r, sent) ==
    /\ pc = "launch"
    /\ sent \in 0..Len(run_commands(infer_conn_params(nodes[last.name], str_params)))
    /\ ~r.panic =>
          sent = Len(run_commands(infer_conn_params(nodes[last.name], str_params)))
    /\ remote' = Append(remote \o SubSeq(Sent(run_commands(
                             infer_conn_params(nodes[last.name], str_params))), 1, sent),
                        Ran("launch", r))
    /\ CASE r.panic ->
              /\ Finish("Panic")
              /\ UNCHANGED instances
         [] ~r.panic /\ ~Contains(r.out, <<"p", "i", "d">>) ->
              Persist(local.subject_st, "RunFailed")
         [] OTHER ->
              Persist([local.subject_st EXCEPT !.running = TRUE], "Ok")
    /\ UNCHANGED <<nodes, str_params, added, sessions>>
    /\ Track

\* ---------------------------------------------------------------- is_alive
\* the remote commands is_alive issues, given what each would answer
alive_trace(pid, runs, addr, port) ==
    <<Ran("cat_pid", pid)>> \o
    (IF pid.panic \/ ~ParseOk(Trim(pid.out), U64Max) THEN <<>>
     ELSE <<Ran("kill_0", runs)>> \o
          (IF runs.panic \/ ~Contains(runs.out, <<"r", "u", "n", "s">>) THEN <<>>
           ELSE <<Ran("cat_bind_addr", addr)>> \o
                (IF addr.panic THEN <<>>
                 ELSE <<Ran("cat_bind_port", port)>>)))

alive_panics(pid, runs, addr, port) ==
    \E i \in 1..Len(alive_trace(pid, runs, addr, port)) :
        alive_trace(pid, runs, addr, port)[i][2] = "panic"

alive_status_untrimmed(pid, runs, addr, port) ==
    IF /\ Len(alive_trace(pid, runs, addr, port)) = 4
       /\ ParseOk(Trim(port.out), U16Max)
    THEN [alive |-> TRUE, bind_addr |-> addr.out, bind_port |-> ParseVal(Trim(port.out))]
    ELSE NoAlive

alive_status(pid, runs, addr, port) ==
    IF /\ Len(alive_trace(pid, runs, addr, port)) = 4
       /\ ParseOk(Trim(port.out), U16Max)
    THEN [alive |-> TRUE, bind_addr |-> Trim(addr.out), bind_port |-> ParseVal(Trim(port.out))]
    ELSE NoAlive

\* what a node can answer to each of the four commands; n2 runs a process
\* on the default endpoint
AliveAnswers(name) ==
    IF name = "n1"
    THEN <<ExecResults(PidOutputs), ExecResults(RunsOutputs),
           ExecResults(AddrOutputs), ExecResults(PortOutputs)>>
    ELSE <<ExecResults({<<"7", "\n">>}), ExecResults({<<"r", "u", "n", "s", "\n">>}),
           ExecResults({DefaultBindAddr \o <<"\n">>}),
           ExecResults({DefaultBindPort \o <<"\n">>})>>

\* the answers of the node to the four commands: one of its answers for a
\* command that is_alive reaches, no answer for one that it does not reach
AliveCases(name) ==
    LET answers == AliveAnswers(name)
    IN  {c \in (answers[1] \cup {NoAnswer}) \X (answers[2] \cup {NoAnswer})
                \X (answers[3] \cup {NoAnswer}) \X (answers[4] \cup {NoAnswer}) :
            \/ c = <<NoAnswer, NoAnswer, NoAnswer, NoAnswer>>
            \/ \A i \in 1..4 :
                  IF i <= Len(alive_trace(c[1], c[2], c[3], c[4]))
                  THEN c[i] \in answers[i]
                  ELSE c[i] = NoAnswer}

\* a node without a session is asked nothing
IsAlive(name, pid, runs, addr, port) ==
    /\ pc = "idle"
    /\ (name \notin DOMAIN instances) =>
          <<pid, runs, addr, port>> = <<NoAnswer, NoAnswer, NoAnswer, NoAnswer>>
    /\ IF name \notin DOMAIN instances
       THEN /\ remote' = <<>>
            /\ last' = Call("is_alive", name, "Delta", "Ok")
       ELSE /\ remote' = alive_trace(pid, runs, addr, port)
            /\ last' = IF alive_panics(pid, runs, addr, port)
                       THEN Call("is_alive", name, "Delta", "Panic")
                       ELSE [Call("is_alive", name, "Delta", "Ok")
                               EXCEPT !.alive = alive_status(pid, runs, addr, port)]
    /\ UNCHANGED <<nodes, instances, str_params, added, sessions, pc, local>>
    /\ Track

Next ==
    \/ \E name \in Names : \E node \in NodeChoices(name) :
          Add(name, node.fqdn, node.str_params)
    \/ \E name \in Names : IsConnected(name)
    \/ \E name \in Names : Disconnect(name)
    \/ \E name \in Names : Remove(name)
    \/ \E name \in Names : Connect(name)
    \/ \E outcome \in {"ok", "err"} : ConnectTcp(outcome)
    \/ \E outcome \in {"ok", "err"} : ConnectHandshake(outcome)
    \/ \E outcome \in {"ok", "rejected", "unauthenticated"} : ConnectAuth(outcome)
    \/ \E r \in ExecResults(UNION {Platforms(n) : n \in Names}) : ConnectUname(r)
    \/ \E name \in Names, subject \in DeploySubject : Deploy(name, subject)
    \/ \E outcome \in UploadOutcomes : DeployUpload(outcome)
    \/ \E r \in ExecResults(ExtractOutputs) : DeployExtract(r)
    \/ \E r \in ExecResults(TestOutputs) : DeployTest(r)
    \/ \E name \in Names : \E subject \in RunSubjects(name) : Run(name, subject)
    \/ \E r \in ExecResults({EmptyStr}) : RunKill(r)
    \/ \E r \in ExecResults(LaunchOutputs), sent \in 0..Len(run_commands(<<DefaultBindAddr, DefaultBindPort>>)) :
          RunLaunch(r, sent)
    \/ \E name \in Names : \E c \in AliveCases(name) :
          IsAlive(name, c[1], c[2], c[3], c[4])
    \/ \E name \in Names, sparam \in ParamKeys : GetNodeParam(name, sparam)

Spec == Init /\ [][Next]_vars

\* ---------------------------------------------------------------- parameters
\* A pool whose node n1 was added with some bind parameters and connected,
\* with some pool-wide defaults: what get_node_param resolves and what run
\* hands to the remote shell, for every such configuration.
InitParams ==
    /\ \E addr \in AddrValues \cup {Unset}, port \in PortValues \cup {Unset} :
          nodes = [n \in {"n1"} |-> [fqdn |-> "h1:22", str_params |-> ParamMap(addr, port)]]
    /\ instances = [n \in {"n1"} |-> connect_instance(<<"L">>)]
    /\ str_params \in PoolChoices
    /\ added = {"n1"}
    /\ sessions = [n \in Names |-> IF n = "n1" THEN 1 ELSE 0]
    /\ pc = "idle"
    /\ local = NoLocal
    /\ last = Call("connect", "n1", "Delta", "Ok")
    /\ remote = <<Did("tcp", "ok"), Did("handshake", "ok"), Did("auth", "ok"),
                  Ran("uname", [panic |-> FALSE, out |-> <<"L">>])>>
    /\ e2e = "off"

NextParams ==
    \/ \E sparam \in ParamKeys : GetNodeParam("n1", sparam)
    \/ Run("n1", "Sa")
    \/ \E r \in ExecResults({EmptyStr}) : RunKill(r)
    \/ \E r \in ExecResults(LaunchOutputs), sent \in 0..Len(run_commands(<<DefaultBindAddr, DefaultBindPort>>)) :
          RunLaunch(r, sent)

SpecParams == InitParams /\ [][NextParams]_vars

\* ================================================================ properties

\* C1: every node name that has an Instance is a registered node: the keys
\* of instances are a subset of the keys of nodes, in every reachable state.
C1_InstancesAreRegistered == DOMAIN instances \subseteq DOMAIN nodes

\* remove has acted on a node while another node of the pool holds a session
C1_Witness ==
    /\ last.op = "remove" /\ last.result = "Ok"
    /\ remote = <<Did("close", "ok")>>
    /\ DOMAIN instances # {}
\* C2: at every step, the steps inside connect included, at most one session
\* is open per node name and each open session is held by the Instance of
\* that name or by the connect in flight; connect discards the prior Instance
\* before it opens the new connection, and when it has returned Ok the
\* Instance of the name is connected, holds the only session of the name and
\* carries the platform string this connect captured.
C2_OneSessionPerNode ==
    /\ \A n \in Names :
          /\ sessions[n] <= 1
          /\ sessions[n] = (IF n \in DOMAIN instances THEN 1 ELSE 0)
                           + (IF local.sess = "Some" /\ last.name = n THEN 1 ELSE 0)
    /\ (pc \in {"tcp", "handshake", "auth", "uname"}) => last.name \notin DOMAIN instances
    /\ (last.op = "connect" /\ last.result = "Ok") =>
          /\ last.name \in DOMAIN instances
          /\ instances[last.name].conn_status.connected
          /\ remote[Len(remote)][1] = "uname"
          /\ instances[last.name].conn_status.platform = remote[Len(remote)][3]
          /\ sessions[last.name] = 1

\* connect on a connected node has closed the prior session and returned Ok
C2_Witness ==
    /\ last.op = "connect" /\ last.result = "Ok"
    /\ remote[1][1] = "close"

NameOps == {"remove", "connect", "disconnect", "deploy", "run"}

\* C3 as stated: for a name never passed to add, remove, connect, disconnect,
\* deploy and run return NodeNotFound for every subject argument.
C3_Original ==
    (last.op \in NameOps /\ last.name \notin added) => last.result = "NodeNotFound"

\* C3 as amended: for a name never passed to add, remove, connect,
\* disconnect, run with any subject and deploy with a subject other than the
\* reserved one return NodeNotFound; deploy with the reserved subject returns
\* InvalidArgument.
C3_UnknownNameNotFound ==
    (last.op \in NameOps /\ last.name \notin added) =>
        last.result = (IF last.op = "deploy" /\ last.subject = "Delta"
                       THEN "InvalidArgument" ELSE "NodeNotFound")

\* run was called for a name never added while another node holds a session
C3_Witness ==
    /\ last.op = "run" /\ last.name \notin added
    /\ last.result = "NodeNotFound"
    /\ DOMAIN instances # {}

\* C4: add on a registered name returns NodeAlreadyExists and changes
\* nothing: the node keeps its address and parameter map and no Instance
\* (nor its session) is created, removed or modified.
C4_DuplicateAddRejected ==
    [][(pc = "idle" /\ last'.op = "add" /\ last' # last /\ last'.name \in DOMAIN nodes)
          => /\ last'.result = "NodeAlreadyExists"
             /\ UNCHANGED <<nodes, instances, str_params, sessions>>]_vars

\* add was refused for a node that is connected
C4_Witness ==
    /\ last.op = "add" /\ last.result = "NodeAlreadyExists"
    /\ last.name \in DOMAIN instances
\* C5: when remove has returned Ok the name is not registered, has no
\* Instance and no open session, and its status reads as the default
\* disconnected one; a connect of that name issued next returns NodeNotFound
\* and an is_connected issued next returns the default status.
C5_RemoveLeavesNothing ==
    [][/\ (last'.op = "remove" /\ last'.result = "Ok") =>
              /\ last'.name \notin DOMAIN nodes'
              /\ last'.name \notin DOMAIN instances'
              /\ sessions'[last'.name] = 0
              /\ is_connected(instances', last'.name) = ConnStatusNew(FALSE)
       /\ (last.op = "remove" /\ last.result = "Ok" /\ last'.name = last.name) =>
              /\ (last'.op = "connect") => last'.result = "NodeNotFound"
              /\ (last'.op = "is_connected") => last'.conn_status = ConnStatusNew(FALSE)]_vars

\* connect was refused for a name that had been registered and was removed
C5_Witness ==
    /\ last.op = "connect" /\ last.result = "NodeNotFound"
    /\ last.name \in added

\* C6: disconnect of a registered name returns Ok whether or not an Instance
\* exists, leaves no Instance (and no open session) for the name and keeps the
\* registry as it was; a second disconnect of the name returns Ok again and
\* leaves the pool as the first left it.
C6_DisconnectIdempotent ==
    [][(last'.op = "disconnect" /\ last' # last /\ last'.name \in DOMAIN nodes) =>
          /\ last'.result = "Ok"
          /\ last'.name \notin DOMAIN instances'
          /\ sessions'[last'.name] = 0
          /\ nodes' = nodes /\ str_params' = str_params
          /\ \A n \in Names \ {last'.name} :
                (n \in DOMAIN instances) = (n \in DOMAIN instances')
          /\ disconnect_result(nodes', last'.name) = "Ok"
          /\ disconnect_instances(nodes', instances', last'.name) = instances']_vars

\* disconnect has closed the session of a connected node
C6_Witness ==
    /\ last.op = "disconnect" /\ last.result = "Ok"
    /\ remote = <<Did("close", "ok")>>

\* C7: deploy and run check their preconditions in order and change nothing
\* when one fails: deploy of the reserved subject is InvalidArgument whether
\* or not the node exists or is connected; otherwise an unregistered name is
\* NodeNotFound; otherwise a name without Instance is NodeNotConnected; in
\* these cases the registry, the instances with their statuses and the
\* sessions are unchanged and no remote action is issued.
C7_PreconditionsInOrder ==
    [][(pc = "idle" /\ last'.op \in {"deploy", "run"} /\ (last' # last \/ pc' # "idle")) =>
          LET n == last'.name
              reserved == last'.op = "deploy" /\ last'.subject = "Delta"
              res == last'.result
          IN  /\ reserved => res = "InvalidArgument"
              /\ (~reserved /\ n \notin DOMAIN nodes) => res = "NodeNotFound"
              /\ (~reserved /\ n \in DOMAIN nodes /\ n \notin DOMAIN instances)
                    => res = "NodeNotConnected"
              /\ (res \in {"InvalidArgument", "NodeNotFound", "NodeNotConnected"}) =>
                    /\ UNCHANGED <<nodes, instances, str_params, sessions>>
                    /\ remote' = <<>>
                    /\ pc' = "idle"]_vars

\* deploy of the reserved subject was refused for a name that is not registered
C7_Witness ==
    /\ last.op = "deploy" /\ last.subject = "Delta"
    /\ last.result = "InvalidArgument"
    /\ last.name \notin DOMAIN nodes

\* the four deploy flags of the status that is_connected returns
DeployFlags(name, subject) ==
    LET st == get_subject(is_connected(instances, name), subject)
    IN  <<st.deploy_archive_copied, st.deploy_archive_extracted,
          st.deploy_archive_tested, st.deployed>>

\* C8 as stated: for a connected node and a deployable subject the result of
\* deploy and the status read back through is_connected are determined by
\* the first failing stage: a failed transfer gives DeployCopyFailed and no
\* flag set; an empty extraction output gives DeployExtractionFailed and
\* copied only; an empty smoke-test output gives DeployTestFailed and copied,
\* extracted; all stages passing gives Ok and the four flags set.
C8_StageDeterminesResult ==
    (last.op = "deploy" /\ pc = "idle" /\ remote # <<>>) =>
        /\ (remote[1][2] # "ok") =>
              /\ last.result = "DeployCopyFailed"
              /\ DeployFlags(last.name, last.subject) = <<FALSE, FALSE, FALSE, FALSE>>
        /\ (remote[1][2] = "ok" /\ Len(remote) = 2 /\ remote[2][2] = "empty") =>
              /\ last.result = "DeployExtractionFailed"
              /\ DeployFlags(last.name, last.subject) = <<TRUE, FALSE, FALSE, FALSE>>
        /\ (remote[1][2] = "ok" /\ Len(remote) = 3 /\ remote[3][2] = "empty") =>
              /\ last.result = "DeployTestFailed"
              /\ DeployFlags(last.name, last.subject) = <<TRUE, TRUE, FALSE, FALSE>>
        /\ (remote[1][2] = "ok" /\ Len(remote) = 3 /\ remote[3][2] = "output") =>
              /\ last.result = "Ok"
              /\ DeployFlags(last.name, last.subject) = <<TRUE, TRUE, TRUE, TRUE>>

\* C9: in every reachable state every stored SubjectStatus has deployed only
\* with tested, tested only with extracted and extracted only with copied.
C9_FlagsInOrder ==
    \A n \in DOMAIN instances :
        \A s \in DOMAIN instances[n].conn_status.subjects :
            LET st == instances[n].conn_status.subjects[s]
            IN  /\ st.deployed => st.deploy_archive_tested
                /\ st.deploy_archive_tested => st.deploy_archive_extracted
                /\ st.deploy_archive_extracted => st.deploy_archive_copied

\* a deploy that failed at its first stage has been stored for a subject
\* that runs, on a node that went through deploy and run
C9_Witness ==
    /\ last.op = "deploy" /\ last.result = "DeployCopyFailed"
    /\ last.name \in DOMAIN instances
    /\ get_subject(instances[last.name].conn_status, last.subject).running

StageOk(e) == IF e[1] = "upload" THEN e[2] = "ok" ELSE e[2] = "output"

\* C10 as stated: within one deploy the remote actions are transfer, then
\* extraction, then smoke test, each issued only after the one before it
\* succeeded (the transfer went through, the extraction printed something),
\* and none is issued after a stage has failed.
C10_PipelineStopsAtFailure ==
    (last.op = "deploy") =>
        /\ \A i \in 1..Len(remote) : remote[i][1] = <<"upload", "extract", "test">>[i]
        /\ \A i \in 2..Len(remote) : StageOk(remote[i - 1])

\* the four flags that the stage outcomes of one deploy attempt stand for:
\* a flag per stage that was reached and succeeded, deployed with tested
AttemptFlags(log) ==
    <<StageOk(log[1]),
      Len(log) >= 2 /\ StageOk(log[2]),
      Len(log) >= 3 /\ StageOk(log[3]),
      Len(log) >= 3 /\ StageOk(log[3])>>

\* C11 as stated: a deploy that passed its preconditions works on a status
\* whose four deploy flags were reset, and when it has ended the four flags
\* read back for the subject are those of the stage outcomes of this attempt
\* alone, whatever an earlier attempt left: a deploy that ends at a failed
\* transfer after a fully successful one leaves all four flags false.
C11_AttemptDeterminesFlags ==
    [][/\ (pc' = "upload") =>
             /\ ~local'.subject_st.deploy_archive_copied
             /\ ~local'.subject_st.deploy_archive_extracted
             /\ ~local'.subject_st.deploy_archive_tested
             /\ ~local'.subject_st.deployed
       /\ (last.op = "deploy" /\ pc # "idle" /\ pc' = "idle") =>
             DeployFlags(last.name, last.subject)' = AttemptFlags(remote')]_vars

\* the marker token is in the output of the launch command sequence
RunMarker(log) ==
    \E i \in 1..Len(log) :
        log[i][1] = "launch" /\ Contains(log[i][3], <<"p", "i", "d">>)

\* the running flag of the status that is_connected returns
RunningFlag(name, subject) ==
    get_subject(is_connected(instances, name), subject).running

\* C12 as stated: a run on a registered, connected node returns Ok and
\* leaves running=true exactly when the marker token is in the output of
\* the launch command sequence, and otherwise returns RunFailed and leaves
\* running=false, whatever the flag was before and however the preliminary
\* kill of the previous process went.
C12_MarkerDecidesRun ==
    (last.op = "run" /\ pc = "idle" /\ remote # <<>>) =>
        IF RunMarker(remote)
        THEN last.result = "Ok" /\ RunningFlag(last.name, last.subject)
        ELSE last.result = "RunFailed" /\ ~RunningFlag(last.name, last.subject)

\* the command lines that the most recent call wrote to the remote shell
SentLines ==
    LET idx == {i \in 1..Len(remote) : remote[i][1] = "sh"}
    IN  [k \in 1..Cardinality(idx) |->
            remote[CHOOSE i \in idx : Cardinality({j \in idx : j <= i}) = k][3]]

\* the bind parameters that the node of the most recent call resolves to
ResolvedAddr == get_node_param(nodes[last.name], str_params, "BindAddr")

ResolvedPort == get_node_param(nodes[last.name], str_params, "BindPort")

\* C13: in the launch sequence that run writes, the address is
\* 127.0.0.1 if the resolved bind address is empty or holds a single or a
\* double quote and the resolved address otherwise, and the port in it is
\* 5700 if the resolved bind port does not parse as a u16 and the resolved
\* port otherwise; these values stand in the launch command line and in the
\* two command lines that write the bind_addr and bind_port sentinel files.
C13_SanitizedEndpointUsed ==
    (last.op = "run" /\ SentLines # <<>>) =>
        LET addr == IF \/ ResolvedAddr = EmptyStr
                       \/ \E i \in 1..Len(ResolvedAddr) : ResolvedAddr[i] \in {"'", "\""}
                    THEN <<"1", "2", "7", ".", "0", ".", "0", ".", "1">>
                    ELSE ResolvedAddr
            port == IF ParseOk(ResolvedPort, U16Max)
                    THEN ResolvedPort
                    ELSE <<"5", "7", "0", "0">>
        IN  /\ Len(SentLines) <= 6
            /\ (last.result # "Panic") => Len(SentLines) = 6
            /\ SentLines[1] = LaunchPrefix \o addr \o <<":">> \o port \o LaunchSuffix
            /\ (Len(SentLines) >= 3) => SentLines[3] = EchoPrefix \o addr \o BindAddrSuffix
            /\ (Len(SentLines) >= 4) => SentLines[4] = EchoPrefix \o port \o BindPortSuffix

\* run has launched on a node configured with a quoted address and the
\* port "notaport", and the defaults went to the shell
C13_Witness ==
    /\ last.op = "run" /\ last.result = "Ok"
    /\ Contains(ResolvedAddr, <<"'">>)
    /\ ResolvedPort = <<"n", "o", "t", "a", "p", "o", "r", "t">>
    /\ SentLines # <<>>
    /\ SentLines[4] = EchoPrefix \o <<"5", "7", "0", "0">> \o BindPortSuffix
    /\ SentLines[3] = EchoPrefix \o <<"1", "2", "7", ".", "0", ".", "0", ".", "1">>
                          \o BindAddrSuffix

\* C14 as stated: whatever bind address and bind port are configured, the
\* address and the port that stand in the command lines that run has
\* written to the remote shell hold no character that ends or extends a
\* shell command (; & | $ backtick newline), so that the lines are the
\* same commands for every configuration.
C14_NoCommandInjection ==
    (last.op = "run" /\ Len(SentLines) >= 4) =>
        \A word \in {EchoWord(SentLines[3], BindAddrSuffix),
                      EchoWord(SentLines[4], BindPortSuffix)} :
            \A i \in 1..Len(word) :
                word[i] \notin {";", "&", "|", "$", BackQuote, "\n"}

\* C15: get_node_param returns the value of the node's own map when that
\* map has the key, otherwise the value of the pool's map when that has the
\* key, otherwise the empty string; it returns for every node and key, and
\* the registry, the instances and the pool-wide parameters are as before.
C15_TwoLevelFallback ==
    [][(last'.op = "get_node_param") =>
          /\ last'.result = "Ok"
          /\ last'.name \in DOMAIN nodes
          /\ LET own == nodes[last'.name].str_params
             IN  last'.value =
                    CASE last'.param \in DOMAIN own -> own[last'.param]
                      [] last'.param \notin DOMAIN own /\ last'.param \in DOMAIN str_params ->
                            str_params[last'.param]
                      [] OTHER -> EmptyStr
          /\ UNCHANGED pool]_vars

\* the node overrides a key that the pool sets as well, and the override,
\* here the empty string, has been returned
C15_Witness ==
    /\ last.op = "get_node_param" /\ last.param = "BindAddr"
    /\ "BindAddr" \in DOMAIN nodes[last.name].str_params
    /\ "BindAddr" \in DOMAIN str_params
    /\ str_params["BindAddr"] # EmptyStr
    /\ last.value = EmptyStr

\* C16 as stated: is_connected and is_alive return a value for every name
\* in every pool state and leave the registry, the instances with their
\* stored status and the pool parameters as they were; for a name without
\* an Instance no remote command is issued, is_connected returns
\* connected=false with an empty platform and no subjects, and is_alive
\* returns alive=false with an empty bind address and port 0.
C16_QueriesReadOnlyAndTotal ==
    [][(last'.op \in {"is_connected", "is_alive"}) =>
          /\ UNCHANGED pool
          /\ last'.result = "Ok"
          /\ (last'.name \notin DOMAIN instances) =>
                /\ remote' = <<>>
                /\ last'.conn_status =
                      [connected |-> FALSE, subjects |-> NoSubjects, platform |-> EmptyStr]
                /\ last'.alive =
                      [alive |-> FALSE, bind_addr |-> EmptyStr, bind_port |-> 0]]_vars

\* what the commands of the most recent is_alive answered
PidIsNumber ==
    /\ Len(remote) >= 1 /\ remote[1][1] = "cat_pid" /\ remote[1][2] # "panic"
    /\ ParseOk(Trim(remote[1][3]), U64Max)

ProbeConfirmed ==
    /\ Len(remote) >= 2 /\ remote[2][1] = "kill_0"
    /\ Contains(remote[2][3], <<"r", "u", "n", "s">>)

PortIsU16 ==
    /\ Len(remote) >= 4 /\ remote[4][1] = "cat_bind_port" /\ remote[4][2] # "panic"
    /\ ParseOk(Trim(remote[4][3]), U16Max)

\* C17 as stated: on a connected node is_alive reports alive=true exactly
\* when the pid sentinel holds a number, the probe of that pid is confirmed
\* and the bind_port sentinel parses as a u16, checked in this order; the
\* address and port it then returns are what the two bind sentinels hold;
\* in every other case it returns alive=false with an empty address and
\* port 0; the probe is issued only for a numeric pid and the bind
\* sentinels are read only after a confirmed probe.
C17_AliveOnlyWhenProbed ==
    (last.op = "is_alive" /\ last.name \in DOMAIN instances) =>
        /\ last.result = "Ok"
        /\ last.alive.alive <=> (PidIsNumber /\ ProbeConfirmed /\ PortIsU16)
        /\ last.alive.alive =>
              /\ last.alive.bind_addr = Trim(remote[3][3])
              /\ last.alive.bind_port = ParseVal(Trim(remote[4][3]))
        /\ ~last.alive.alive =>
              last.alive = [alive |-> FALSE, bind_addr |-> EmptyStr, bind_port |-> 0]
        /\ \A i \in 1..Len(remote) :
              /\ remote[i][1] = <<"cat_pid", "kill_0", "cat_bind_addr", "cat_bind_port">>[i]
              /\ (i = 2) => PidIsNumber
              /\ (i >= 3) => ProbeConfirmed

\* the result values that an operation declares
TypedResults(op) ==
    CASE op = "connect" -> {"Ok", "NodeNotFound", "NotAuthenticated"}
      [] op = "deploy" -> {"Ok", "InvalidArgument", "NodeNotFound", "NodeNotConnected",
                           "DeployCopyFailed", "DeployExtractionFailed", "DeployTestFailed"}
      [] op = "run" -> {"Ok", "NodeNotFound", "NodeNotConnected", "RunFailed"}
      [] OTHER -> {"Ok"}

\* a remote action of a pipeline stage that met a transport fault, and the
\* failure variant of its stage
StageFault(e) ==
    /\ e[1] \in {"upload", "extract", "test", "launch"}
    /\ e[2] = "panic" \/ e[2] \in {"read_err", "write_err", "eof_err"}

StageVariant(e) ==
    CASE e[1] = "upload" -> "DeployCopyFailed"
      [] e[1] = "extract" -> "DeployExtractionFailed"
      [] e[1] = "test" -> "DeployTestFailed"
      [] OTHER -> "RunFailed"

\* C18 as stated: whatever the remote session does (the connection cannot
\* be opened, the handshake fails, a command channel cannot be opened or
\* read, a transfer breaks after it started), connect, deploy, run and
\* is_alive end with one of their declared result values, and a transport
\* fault inside a stage of deploy or run gives the failure variant of that
\* stage.
C18_NoOperationIsFatal ==
    (pc = "idle" /\ last.op \in {"connect", "deploy", "run", "is_alive"}) =>
        /\ last.result \in TypedResults(last.op)
        /\ \A i \in 1..Len(remote) :
              (StageFault(remote[i]) /\ \A j \in 1..(i - 1) : ~StageFault(remote[j])) =>
                  last.result = StageVariant(remote[i])

\* the authentication of the connect in this log failed: the credentials
\* were rejected or the session is not authenticated after userauth
AuthFailed(log) ==
    \E i \in 1..Len(log) : log[i][1] = "auth" /\ log[i][2] # "ok"

\* C19: a connect whose authentication fails returns NotAuthenticated and
\* leaves no Instance and no open session for the name, also when the name
\* had an Instance before the call; the node is registered as before, with
\* the same address and parameters; the next is_connected of the name
\* returns the default disconnected status and the next deploy (of a
\* deployable subject) or run returns NodeNotConnected.
C19_AuthFailureDisconnects ==
    [][/\ (last'.op = "connect") => nodes' = nodes
       /\ (last'.op = "connect" /\ pc' = "idle" /\ AuthFailed(remote')) =>
             /\ last'.result = "NotAuthenticated"
             /\ last'.name \notin DOMAIN instances'
             /\ last'.name \in DOMAIN nodes'
             /\ sessions'[last'.name] = 0
       /\ (/\ last.op = "connect" /\ pc = "idle" /\ AuthFailed(remote)
           /\ last'.name = last.name) =>
             /\ (last'.op = "is_connected") =>
                   last'.conn_status = ConnStatusNew(FALSE)
             /\ (last'.op = "deploy" /\ last'.subject # "Delta") =>
                   last'.result = "NodeNotConnected"
             /\ (last'.op = "run") => last'.result = "NodeNotConnected"]_vars

\* a node that held a session and has parameters of its own went through a
\* connect that closed that session and whose new session came out of
\* userauth not authenticated
C19_Witness ==
    /\ last.op = "connect" /\ last.result = "NotAuthenticated" /\ pc = "idle"
    /\ remote[1] = Did("close", "ok")
    /\ remote[Len(remote)] = Did("auth", "unauthenticated")
    /\ nodes[last.name].str_params # EmptyMap

\* C20: along the scenario that starts with a new pool, every call made on
\* the node right after the one before it and the remote side doing its
\* part: add returns Ok; connect returns Ok; deploy of a deployable subject
\* returns Ok with copied, extracted, tested and deployed set; run of that
\* subject returns Ok with running set and the four deploy flags still set;
\* and is_alive, with the started process alive and the sentinel files as
\* run wrote them, returns alive=true with the address and the port that
\* run resolved for the node.
C20_EndToEnd ==
    (pc = "idle") =>
        /\ (e2e = "added") =>
              last.result = "Ok" /\ last.name \in DOMAIN nodes
        /\ (e2e = "connected") =>
              /\ last.result = "Ok"
              /\ is_connected(instances, last.name).connected
        /\ (e2e = "deployed") =>
              /\ last.result = "Ok"
              /\ DeployFlags(last.name, last.subject) = <<TRUE, TRUE, TRUE, TRUE>>
        /\ (e2e = "running") =>
              /\ last.result = "Ok"
              /\ RunningFlag(last.name, last.subject)
              /\ DeployFlags(last.name, last.subject) = <<TRUE, TRUE, TRUE, TRUE>>
        /\ (e2e = "probed") =>
              /\ last.result = "Ok"
              /\ last.alive.alive
              /\ last.alive.bind_addr =
                    infer_conn_params(nodes[last.name], str_params)[1]
              /\ last.alive.bind_port =
                    ParseVal(infer_conn_params(nodes[last.name], str_params)[2])

\* the scenario has been gone through to its end on a node that sets its
\* own bind address and port
C20_Witness ==
    /\ e2e = "probed" /\ last.op = "is_alive"
    /\ "BindAddr" \in DOMAIN nodes[last.name].str_params
    /\ last.alive.bind_addr = nodes[last.name].str_params["BindAddr"]

\* a deploy or run is between its entry and its exit
InFlight == pc \in {"upload", "extract", "test", "kill", "launch"}

\* what a map holds for a key: nothing, or one value
Entry(m, k) == IF k \in DOMAIN m THEN <<m[k]>> ELSE <<>>

\* the four deploy flags of a SubjectStatus
FourFlags(st) ==
    <<st.deploy_archive_copied, st.deploy_archive_extracted,
      st.deploy_archive_tested, st.deployed>>

\* C22: every step of deploy(name, S) and of run(name, S) leaves the node
\* registry and every other node's Instance unchanged and keeps the
\* Instance of name with its session, its connected flag, its platform and
\* the SubjectStatus of every subject other than S; a step of deploy leaves
\* S.running as it is read and a step of run leaves the four deploy flags
\* of S as they are read; and run goes on to its remote stages on every
\* registered and connected node, whether S is deployed or not.
C22_OwnPartOnly ==
    [][(last'.op \in {"deploy", "run"} /\ (pc = "idle" \/ InFlight)) =>
          LET a == last'.name
              S == last'.subject
          IN  /\ nodes' = nodes
              /\ \A n \in Names \ {a} : Entry(instances, n)' = Entry(instances, n)
              /\ (a \in DOMAIN instances') = (a \in DOMAIN instances)
              /\ (a \in DOMAIN instances) =>
                    LET before == instances[a].conn_status
                        after == instances'[a].conn_status
                    IN  /\ instances'[a].ssh_session = instances[a].ssh_session
                        /\ after.connected = before.connected
                        /\ after.platform = before.platform
                        /\ \A s \in DeploySubject \ {S} :
                              Entry(after.subjects, s) = Entry(before.subjects, s)
                        /\ (last'.op = "deploy") =>
                              get_subject(after, S).running = get_subject(before, S).running
                        /\ (last'.op = "run") =>
                              FourFlags(get_subject(after, S)) = FourFlags(get_subject(before, S))
              /\ (last'.op = "run" /\ pc = "idle"
                    /\ a \in DOMAIN nodes /\ a \in DOMAIN instances) => pc' = "kill"]_vars

\* a run of a subject that is not deployed has ended with Ok on a node that
\* had another subject deployed, and that deployment is still there
C22_Witness ==
    /\ pc = "idle" /\ last.op = "run" /\ last.result = "Ok"
    /\ last.name \in DOMAIN instances
    /\ LET cs == instances[last.name].conn_status
       IN  /\ get_subject(cs, last.subject).running
           /\ FourFlags(get_subject(cs, last.subject)) = <<FALSE, FALSE, FALSE, FALSE>>
           /\ \E s \in DOMAIN cs.subjects \ {last.subject} :
                 cs.subjects[s].deployed /\ cs.subjects[s].running

\* C23: in every reachable state every stored Instance has connected=true,
\* and in the state that a successful connect(name) leaves the Instance of
\* name holds no SubjectStatus, so that every subject reads as all-false
\* through is_connected, whatever the session before it held and whether
\* that session was replaced by this connect or ended by a disconnect.
C23_StatusEndsWithSession ==
    /\ \A n \in DOMAIN instances : instances[n].conn_status.connected
    /\ (last.op = "connect" /\ last.result = "Ok") =>
          /\ last.name \in DOMAIN instances
          /\ DOMAIN instances[last.name].conn_status.subjects = {}
          /\ \A s \in DeploySubject :
                get_subject(is_connected(instances, last.name), s) = SubjectStatusNew

\* a connect has replaced a session under which a subject was deployed and
\* running, and has returned Ok
C23_Witness ==
    /\ pc = "idle" /\ last.op = "connect" /\ last.result = "Ok"
    /\ last.dropped # <<>>
    /\ \E s \in DOMAIN last.dropped[1].subjects :
          last.dropped[1].subjects[s].deployed /\ last.dropped[1].subjects[s].running
    /\ is_connected(instances, last.name).connected

====
